---- MODULE Spec2Model ----
(***************************************************************************)
(* The AI image-generation client of web-storyboard                        *)
(* (services/aiImageService.ts, kept as src/unnamed/part_009).             *)
(*                                                                         *)
(* One call of generateAIImage is modelled as a sequential process whose   *)
(* position is pc; the provider, the image store and the clock are the     *)
(* environment, whose answers are drawn from small sets at every await.    *)
(* Strings are modelled by what the code reads of them: input images by    *)
(* their kind, mime type and length, response strings as token sequences   *)
(* whose first token is what startsWith() sees.                            *)
(***************************************************************************)
EXTENDS Integers, Sequences, FiniteSets, TLC

VARIABLES
    stored,          \* localStorage['aiImageConfig'] (Null or a config record)
    pc,              \* position of the generateAIImage call
    params,          \* GenerateAIImageParams of the call
    config,          \* const config = getAIImageConfig()
    storyboardBase64, roleBase64, sceneBase64,   \* converted images (NoImage = undefined)
    request,         \* apiUrl / headers / requestBody
    retryCount,      \* let retryCount
    data,            \* let data (parsed JSON or last SSE event) of this attempt
    buffer, lastData, streamReads,               \* SSE reader state of this attempt
    terminalEvent,   \* the first event with a final status the reader parsed
    badFrames,       \* `data: ` lines the reader skipped as unparseable
    attempt,         \* poll loop counter of this attempt
    generatedImage,  \* let generatedImage of this attempt
    result,          \* value the call resolved with (NoResult while none)
    error,           \* error the call rejected with (NoError while none)
    caught,          \* the error bound by catch (line 1110) while its block runs
    timedOut,        \* a poll loop of this call ended in the timeout of line 972
    posts,           \* submission POSTs issued by this call
    pollRuns,        \* poll loops entered by this call
    runPolls,        \* poll requests issued by this attempt's poll loop
    runWaited,       \* ms slept inside this attempt's poll loop
    runPending,      \* every poll of this attempt's loop was answered "pending"
    lastPoll,        \* the outcome of the latest poll request of this attempt's loop
    lastRequest,     \* the latest submission or poll request: its URL and API key
    fetches,         \* image fetches (blob:/remote inputs, result download)
    backoffs,        \* ms slept before each further attempt, in order
    lastResponse,    \* the answer to the latest submission POST
    allAnswers,      \* the answer all submission POSTs so far got, Mixed if they differ
    progress,        \* summary of the values passed to params.onProgress
    inFlight,        \* requests of the call that are issued and not yet settled
    probe            \* the validateAPIConfig call: position, request, answer, error

callVars == << params, config >>
imageVars == << storyboardBase64, roleBase64, sceneBase64 >>
streamVars == << buffer, lastData, streamReads, terminalEvent, badFrames >>
answerVars == << lastResponse, allAnswers >>
runVars == << runPolls, runWaited, runPending, lastPoll, lastRequest >>
\* what the end of a synchronous stretch of the retry loop decides
flowVars == << pc, data, retryCount, error, caught, timedOut, backoffs, attempt,
               pollRuns, generatedImage, result, fetches, progress >>

vars == << stored, callVars, imageVars, request, streamVars, answerVars, runVars,
           flowVars, posts, inFlight, probe >>

----------------------------------------------------------------------------
(* Program constants *)

maxRetries == 3
maxPollingAttempts == 30
pollingInterval == 2000
BackoffUnit == 1000
MinImageLen == 100
MinPayloadLen == 50

(* Bounds of the model *)

MaxStreamReads == 2      \* chunks a response stream delivers before it ends
MaxRatio == 12           \* largest side of the whole-number aspect ratios tried

----------------------------------------------------------------------------
(* Input images.  An image string is a record                               *)
(*   [kind |-> "empty"]                      ''                             *)
(*   [kind |-> "data", mime, n]              data:<mime>;base64,<n chars>   *)
(*   [kind |-> "blob"/"url", ok, mime, bytes] a reference and what fetching *)
(*                                            it yields                     *)

NoImage == [kind |-> "none"]
ConvError == [kind |-> "error"]     \* convertToBase64 threw
ConvFail == [kind |-> "fail"]       \* imageToBase64 rejected

MimeLen(mime) == CASE mime = "image/png"  -> 9
                   [] mime = "image/jpeg" -> 10
                   [] OTHER               -> 10    \* "text/plain"

\* length of `data:${mime};base64,${payload}`
DataUrlLen(mime, n) == 5 + MimeLen(mime) + 8 + n

\* FileReader.readAsDataURL: 4 base64 characters per 3 bytes, padded
B64Len(bytes) == 4 * ((bytes + 2) \div 3)

\* bytes a base64 payload of n characters (n a multiple of 4) decodes to, at most
DecodedLen(n) == 3 * (n \div 4)

DataUrl(mime, n) == [kind |-> "data", mime |-> mime, n |-> n]

StrLen(img) == CASE img.kind = "data" -> DataUrlLen(img.mime, img.n)
                 [] img.kind = "none" -> 0
                 [] img.kind = "empty" -> 0
                 [] OTHER -> 30          \* a blob: or http(s) reference

IsImageMime(mime) == mime \in {"image/png", "image/jpeg"}

\* sizes canvas.toBlob(..., 'image/png') can produce for a decodable image
ReencodedSizes == {68, 300}

\* imageToBase64(blob, 'image/png'): the set of outcomes ("fail" or a data URL)
imageToBase64(mime, bytes) ==
    IF mime = "image/png"
    THEN { DataUrl("image/png", B64Len(bytes)) }
    ELSE IF IsImageMime(mime)
         THEN { DataUrl("image/png", B64Len(s)) : s \in ReencodedSizes } \cup { ConvFail }
         ELSE { ConvFail }                       \* img.onerror / toBlob(null)

\* Mutant: the data-URI branch of convertToBase64 loses its length guard.
convertDataUrl_NoLengthGuard(image) ==
    IF ~IsImageMime(image.mime) \/ image.n < 1 \/ image.n < MinPayloadLen
    THEN ConvError
    ELSE image

\* convertToBase64, image.startsWith('data:')
convertDataUrl(image) ==
    IF StrLen(image) < MinImageLen
    THEN ConvError
    ELSE IF ~IsImageMime(image.mime) \/ image.n < 1 \/ image.n < MinPayloadLen
         THEN ConvError
         ELSE image

\* Mutant: a fetched image is returned without the length guard.
convertFetched_NoLengthGuard(image) ==
    IF ~image.ok \/ image.bytes = 0
    THEN { ConvError }
    ELSE { IF b = ConvFail THEN ConvError ELSE b
           : b \in imageToBase64(image.mime, image.bytes) }

\* convertToBase64, blob: and remote URL branches (the two are the same code)
convertFetched(image) ==
    IF ~image.ok \/ image.bytes = 0
    THEN { ConvError }
    ELSE { IF b = ConvFail THEN ConvError
           ELSE IF StrLen(b) < MinImageLen THEN ConvError ELSE b
           : b \in imageToBase64(image.mime, image.bytes) }

\* convertToBase64: the set of outcomes, ConvError or the data URL
convertToBase64(image) ==
    IF image.kind = "empty" THEN { ConvError }
    ELSE IF image.kind = "data" THEN { convertDataUrl(image) }
    ELSE convertFetched(image)

\* does convertToBase64 call fetch() for this image
NeedsFetch(image) == image.kind \in {"blob", "url"}

----------------------------------------------------------------------------
(* Endpoints and configurations.  An endpoint string is the sequence of the  *)
(* pieces the code looks for in it.                                          *)

Includes(s, tok) == \E i \in 1..Len(s) : s[i] = tok

RECURSIVE TrimLeft(_)
TrimLeft(s) == IF Len(s) > 0 /\ s[1] = " " THEN TrimLeft(Tail(s)) ELSE s

RECURSIVE TrimRight(_)
TrimRight(s) == IF Len(s) > 0 /\ s[Len(s)] = " "
                THEN TrimRight(SubSeq(s, 1, Len(s) - 1)) ELSE s

\* String.prototype.trim
Trim(s) == TrimRight(TrimLeft(s))

\* Mutant: the endpoint is never checked.
ParsesAsURL_Always(s) == TRUE

\* new URL(endpoint) succeeds: the string starts with a scheme
ParsesAsURL(s) == Len(s) > 0 /\ s[1] \in {"https://", "http://"}

GeminiEndpoint ==
    << "https://", "api.example", "/v1beta/models/", "m", ":generateContent" >>
DrawEndpoint    == << "https://", "api.example", "/v1/draw/", "nano-banana" >>
GenericEndpoint == << "https://", "api.example", "/v1/images/generations" >>
PaddedEndpoint  == << " " >> \o DrawEndpoint \o << " " >>
NoSchemeEndpoint == << "api.example", "/v1/draw/", "nano-banana" >>

\* /v1/draw/ together with both Gemini markers; one Gemini marker alone
BothShapesEndpoint ==
    << "https://", "api.example", "/v1/draw/", "/v1beta/models/", "m",
       ":generateContent" >>
HalfGeminiEndpoint == << "https://", "api.example", "/v1beta/models/", "m", ":predict" >>

Endpoints ==
    { GeminiEndpoint, PaddedEndpoint, GenericEndpoint, NoSchemeEndpoint,
      BothShapesEndpoint, HalfGeminiEndpoint }

Config(e, k, m) == [apiEndpoint |-> e, apiKey |-> k, modelName |-> m]

\* the model name configured beside an endpoint
ModelNameOf(e) == IF e = GeminiEndpoint THEN "gemini-image" ELSE "model"

Configs == { Config(e, "key", ModelNameOf(e)) : e \in Endpoints }
             \cup { Config(GenericEndpoint, "", "model") }

Null == [null |-> TRUE]

StoredValues == { Null } \cup Configs

\* Mutant: one Gemini marker is enough.
isGeminiAPI_EitherMarker(endpoint) ==
    Includes(endpoint, "/v1beta/models/") \/ Includes(endpoint, ":generateContent")

\* generateAIImage, provider detection
isGeminiAPI(endpoint) ==
    Includes(endpoint, "/v1beta/models/") /\ Includes(endpoint, ":generateContent")

isNanoBananaAPI(endpoint) == Includes(endpoint, "/v1/draw/")

Provider(endpoint) == IF isGeminiAPI(endpoint) THEN "GEMINI"
                      ELSE IF isNanoBananaAPI(endpoint) THEN "ASYNC_TASK"
                      ELSE "GENERIC"

----------------------------------------------------------------------------
(* Parameters of a call *)

Prompts == { "", "a cat" }

Fetched(kind, ok, mime, bytes) ==
    [kind |-> kind, ok |-> ok, mime |-> mime, bytes |-> bytes]

StoryboardImages ==
    { [kind |-> "empty"],
      DataUrl("image/png", 40),       \* 30 bytes, 62 characters
      DataUrl("image/png", 60),       \* 45 bytes, 82 characters
      DataUrl("image/png", 80),       \* 60 bytes, 102 characters
      DataUrl("image/png", 400),      \* 300 bytes, 422 characters
      DataUrl("text/plain", 400),
      Fetched("blob", TRUE, "image/png", 0),
      Fetched("blob", TRUE, "image/png", 30),
      Fetched("blob", TRUE, "image/png", 60),
      Fetched("blob", TRUE, "image/jpeg", 20),
      Fetched("url", TRUE, "image/png", 30),
      Fetched("url", TRUE, "image/png", 300),
      Fetched("url", FALSE, "image/png", 300) }

ReferenceImages ==
    { NoImage,
      DataUrl("image/png", 60),
      DataUrl("image/png", 80),
      DataUrl("image/png", 400),
      Fetched("url", TRUE, "image/png", 30),
      Fetched("blob", TRUE, "image/png", 300) }

\* An aspect ratio 'W:H' is the pair of its sides; a decimal side is written
\* in hundredths on both sides ('2.39:1' is Ratio(239, 100)), which leaves
\* the quotient w / h the code computes unchanged.
Ratio(w, h) == [w |-> w, h |-> h]

DefaultRatio == Ratio(16, 9)

\* the ratios of the project settings, and all whole-number ratios up to MaxRatio
AspectRatios ==
    { Ratio(16, 9), Ratio(9, 16), Ratio(1, 1), Ratio(4, 3), Ratio(3, 2),
      Ratio(239, 100), Ratio(235, 100), Ratio(185, 100) }
    \cup { Ratio(w, h) : w \in 1..MaxRatio, h \in 1..MaxRatio }

\* Math.round(a / b) for positive integers a and b
RoundDiv(a, b) == (2 * a + b) \div (2 * b)

\* imageUtils.ts, calculateImageSize
calculateImageSize(aspectRatio, baseSize) ==
    LET w == aspectRatio.w
        h == aspectRatio.h
        width == IF w >= h THEN baseSize ELSE RoundDiv(baseSize * w, h)
        height == IF w >= h THEN RoundDiv(baseSize * h, w) ELSE baseSize
    IN  [ width |-> RoundDiv(width, 8) * 8, height |-> RoundDiv(height, 8) * 8 ]

NoSize == [ width |-> 0, height |-> 0 ]

ParamSets == [ prompt : Prompts,
               storyboardImage : StoryboardImages,
               roleImage : ReferenceImages,
               sceneImage : { NoImage, DataUrl("image/png", 80),
                              DataUrl("image/jpeg", 400) },
               aspectRatio : { DefaultRatio } ]

\* calls that differ in the aspect ratio only
SizeParams == [ prompt : { "a cat" },
                storyboardImage : { DataUrl("image/png", 400) },
                roleImage : { NoImage },
                sceneImage : { NoImage },
                aspectRatio : AspectRatios ]

NoParams == [ prompt |-> "", storyboardImage |-> NoImage,
              roleImage |-> NoImage, sceneImage |-> NoImage,
              aspectRatio |-> DefaultRatio ]
NoRequest == [ provider |-> "none", auth |-> "", images |-> << >>,
               imageSize |-> NoSize, url |-> << >>, key |-> "" ]
NoResult == [ image |-> << >>, model |-> "" ]

----------------------------------------------------------------------------
(* Strings of a response.  A string is a sequence of tokens; the first token *)
(* is the prefix startsWith() tests, << >> is '' / undefined (both falsy).   *)

Absent == << >>
Bare == << "iVBORw0KGgo" >>                         \* bare base64 text
BareHttp == << "http", "AAAA" >>                    \* text that merely begins with "http"
HttpUrl == << "https://", "cdn.example/a", ".png" >>
PlainHttpUrl == << "http://", "cdn.example/a" >>
BlobUrl == << "blob:", "6f1c" >>
DataUri(mime, payload) == << "data:", mime, ";base64," >> \o payload
PngDataUri == DataUri("image/png", Bare)
LongPayload == << "AAAA", "iVBORw0KGgo" >>          \* another base64 text

Base64Tokens == { "iVBORw0KGgo", "AAAA" }

StartsWith(str, prefix) ==
    /\ Len(str) > 0
    /\ CASE prefix = "http" -> str[1] \in { "http", "http://", "https://" }
         [] OTHER -> str[1] = prefix

\* `data:image/png;base64,${str}`
PrefixPng(str) == << "data:", "image/png", ";base64," >> \o str

\* the string has the shape data:<mime>;base64,<base64 payload>
IsDataURI(str) ==
    /\ Len(str) >= 4
    /\ str[1] = "data:"
    /\ str[3] = ";base64,"
    /\ \A i \in 4..Len(str) : str[i] \in Base64Tokens

Truthy(str) == Len(str) > 0

\* a || b || c || d
Or4(a, b, c, d) == IF Truthy(a) THEN a ELSE IF Truthy(b) THEN b
                   ELSE IF Truthy(c) THEN c ELSE d

(* A parsed JSON value: the fields the code reads. *)
EmptyBody ==
    [ status |-> "", id |-> "", errMsg |-> "", failure_reason |-> "",
      progress |-> -1,
      candidates |-> << >>,       \* candidates[0].content.parts: [data, mimeType]
      dataIsArray |-> FALSE,      \* Array.isArray(data.data) && length > 0
      dataUrl |-> Absent,         \* data[0].url
      dataB64 |-> Absent,         \* data[0].b64_json
      images0 |-> Absent,         \* images[0]
      resultImage |-> Absent,     \* result.image
      image |-> Absent, url |-> Absent,
      dataStr |-> Absent,         \* data, when a string
      base64 |-> Absent,
      results0 |-> Absent,        \* results[0].image (or results.image)
      other |-> Absent ]          \* any other string field

Part(d, m) == [ data |-> d, mimeType |-> m ]

Terminal(st) == st \in { "succeeded", "completed", "failed", "error" }

\* the task-failure classification of lines 871-883
FriendlyError(d) ==
    IF d.failure_reason = "output_moderation" \/ d.errMsg \in { "moderation", "policy" }
    THEN "ModerationRejected"
    ELSE IF d.errMsg \in { "rate limit", "quota" } THEN "RateLimited"
    ELSE IF d.errMsg \in { "auth", "key" } THEN "AuthError"
    ELSE "TaskFailed"

\* lines 992-1021: a completed body's result image is copied to data.image
\* ("TypeError" when the value picked is no string)
CompletedImage(d) ==
    LET resultImage == IF Truthy(d.results0) THEN d.results0
                       ELSE Or4(d.image, d.url, d.dataStr, d.base64)
    IN  IF ~Truthy(resultImage) THEN d.image
        ELSE IF StartsWith(resultImage, "http://") \/ StartsWith(resultImage, "https://")
             THEN resultImage
        ELSE IF ~StartsWith(resultImage, "data:") /\ ~StartsWith(resultImage, "blob:")
             THEN PrefixPng(resultImage)
        ELSE resultImage

CompletedThrows(d) ==
    /\ ~Truthy(d.results0) /\ ~Truthy(d.image) /\ ~Truthy(d.url)
    /\ d.dataIsArray

\* Mutant: a part without mime type gets no default type.
RECURSIVE FirstInline_NoDefaultMime(_)
FirstInline_NoDefaultMime(parts) ==
    IF parts = << >> THEN Absent
    ELSE IF Truthy(Head(parts).data)
         THEN DataUri(Head(parts).mimeType, Head(parts).data)
         ELSE FirstInline_NoDefaultMime(Tail(parts))

RECURSIVE FirstInline(_)
FirstInline(parts) ==
    IF parts = << >> THEN Absent
    ELSE IF Truthy(Head(parts).data)
         THEN DataUri(IF Head(parts).mimeType = "" THEN "image/png"
                      ELSE Head(parts).mimeType, Head(parts).data)
         ELSE FirstInline(Tail(parts))

\* lines 1068-1080: the regex scan of JSON.stringify(data)
RegexScan(d) ==
    LET fields == << d.results0, d.base64, d.other >>
        isB64(f) == Len(f) >= 4 /\ f[1] = "data:" /\ f[2] \in { "image/png", "image/jpeg" }
                    /\ f[3] = ";base64," /\ f[4] \in Base64Tokens
        isUrl(f) == Len(f) >= 3 /\ f[1] \in { "http://", "https://" }
                    /\ f[Len(f)] \in { ".jpg", ".jpeg", ".png", ".webp", ".webm" }
        b64s == { i \in 1..3 : isB64(fields[i]) }
        urls == { i \in 1..3 : isUrl(fields[i]) }
        min(S) == CHOOSE i \in S : \A j \in S : i <= j
    IN  IF b64s # {} THEN fields[min(b64s)]
        ELSE IF urls # {} THEN fields[min(urls)]
        ELSE Absent

\* lines 1052-1066: images[0] / result.image / image / url / data (string)
GenericImage(d) ==
    IF Truthy(d.images0) THEN d.images0
    ELSE IF Truthy(d.resultImage) THEN d.resultImage
    ELSE IF Truthy(d.image) THEN d.image
    ELSE IF Truthy(d.url) THEN d.url
    ELSE IF Truthy(d.dataStr)
         THEN (IF StartsWith(d.dataStr, "data:") THEN d.dataStr ELSE PrefixPng(d.dataStr))
    ELSE Absent

\* lines 1042-1050: data[0].url || data[0].b64_json
OpenAIImage(d) ==
    LET item == IF Truthy(d.dataUrl) THEN d.dataUrl ELSE d.dataB64
    IN  IF ~d.dataIsArray THEN Absent
        ELSE IF Truthy(item) /\ ~StartsWith(item, "data:") /\ ~StartsWith(item, "http")
             THEN PrefixPng(item)
        ELSE item

\* Mutant: the generic fields are tried before the OpenAI-style array.
ExtractImage_GenericFirst(d) ==
    LET g1 == FirstInline(d.candidates)
        g2 == IF Truthy(g1) THEN g1 ELSE GenericImage(d)
        g3 == IF Truthy(g2) THEN g2 ELSE OpenAIImage(d)
    IN  IF Truthy(g3) THEN g3 ELSE RegexScan(d)

\* lines 1024-1080: the image extracted from a body, Absent when none is found
ExtractImage(d) ==
    LET g1 == FirstInline(d.candidates)
        g2 == IF Truthy(g1) THEN g1 ELSE OpenAIImage(d)
        g3 == IF Truthy(g2) THEN g2 ELSE GenericImage(d)
    IN  IF Truthy(g3) THEN g3 ELSE RegexScan(d)

\* line 1087: the extracted image is downloaded
IsRemote(str) == StartsWith(str, "http://") \/ StartsWith(str, "https://")

\* downloadImageAsBase64: FileReader.readAsDataURL of the downloaded blob
Downloaded == DataUri("image/png", << "AAAA" >>)

----------------------------------------------------------------------------
(* What the provider can answer *)

WithStatus(b, st, id) == [b EXCEPT !.status = st, !.id = id]

ImageBodies ==
    { [EmptyBody EXCEPT !.candidates = << Part(Bare, "") >>],
      [EmptyBody EXCEPT !.candidates = << Part(Absent, ""), Part(Bare, "image/jpeg") >>],
      [EmptyBody EXCEPT !.candidates = << Part(Absent, ""), Part(LongPayload, "") >>],
      [EmptyBody EXCEPT !.dataIsArray = TRUE, !.dataUrl = HttpUrl],
      [EmptyBody EXCEPT !.dataIsArray = TRUE, !.dataUrl = BareHttp],
      [EmptyBody EXCEPT !.dataIsArray = TRUE, !.dataB64 = Bare],
      [EmptyBody EXCEPT !.images0 = Bare],
      [EmptyBody EXCEPT !.images0 = PngDataUri],
      [EmptyBody EXCEPT !.resultImage = BlobUrl],
      [EmptyBody EXCEPT !.image = Bare],
      [EmptyBody EXCEPT !.url = PlainHttpUrl],
      [EmptyBody EXCEPT !.dataStr = Bare],
      [EmptyBody EXCEPT !.other = PngDataUri],
      [EmptyBody EXCEPT !.other = HttpUrl],
      EmptyBody }

StatusBodies ==
    { [WithStatus(EmptyBody, "failed", "task-1") EXCEPT !.errMsg = "boom"],
      [WithStatus(EmptyBody, "error", "") EXCEPT !.failure_reason = "output_moderation"],
      WithStatus(EmptyBody, "pending", "task-1"),
      WithStatus(EmptyBody, "processing", ""),
      [WithStatus(EmptyBody, "in_progress", "") EXCEPT !.progress = 50],
      [WithStatus(EmptyBody, "completed", "task-1") EXCEPT !.results0 = Bare],
      [WithStatus(EmptyBody, "succeeded", "task-1") EXCEPT !.image = HttpUrl],
      [WithStatus(EmptyBody, "success", "") EXCEPT !.base64 = Bare],
      WithStatus(EmptyBody, "completed", ""),
      [WithStatus(EmptyBody, "completed", "")
          EXCEPT !.dataIsArray = TRUE, !.dataB64 = Bare] }

SubmitBodies == ImageBodies \cup StatusBodies

\* Bodies without status in which any combination of the image-bearing
\* fields is present, each field with a value of its own.  `data` is an
\* array (of one item, with or without b64_json), a string, or missing.
ShapeBodies ==
    { b \in [ status : { "" }, id : { "" }, errMsg : { "" }, failure_reason : { "" },
              progress : { -1 },
              candidates : { << >>, << Part(Absent, ""), Part(Bare, "image/jpeg") >> },
              dataIsArray : BOOLEAN,
              dataUrl : { Absent },
              dataB64 : { Absent, LongPayload },
              images0 : { Absent, Bare },
              resultImage : { Absent, BlobUrl },
              image : { Absent, << "AAAA" >> },
              url : { Absent, PlainHttpUrl },
              dataStr : { Absent, << "AAAA", "AAAA" >> },
              base64 : { Absent },
              results0 : { Absent },
              other : { Absent, PngDataUri } ] :
        /\ Truthy(b.dataB64) => b.dataIsArray
        /\ Truthy(b.dataStr) => ~b.dataIsArray }

\* [status, ctype] of the non-OK answers
ErrorResponses ==
    { [status |-> 401, ctype |-> "application/json"],
      [status |-> 403, ctype |-> "application/json"],
      [status |-> 429, ctype |-> "application/json"],
      [status |-> 500, ctype |-> "application/json"],
      [status |-> 502, ctype |-> "text/html"] }

NetworkFailure == [status |-> 0, ctype |-> ""]       \* fetch() rejected
OkJson   == [status |-> 200, ctype |-> "application/json"]
OkHtml   == [status |-> 200, ctype |-> "text/html"]
OkStream == [status |-> 200, ctype |-> "text/event-stream"]

PollBodies ==
    { WithStatus(EmptyBody, "pending", "task-1"),
      WithStatus(EmptyBody, "completed", "task-1"),
      [WithStatus(EmptyBody, "completed", "task-1") EXCEPT !.results0 = Bare],
      [WithStatus(EmptyBody, "success", "task-1") EXCEPT !.image = BlobUrl],
      [WithStatus(EmptyBody, "completed", "task-1") EXCEPT !.url = HttpUrl],
      [WithStatus(EmptyBody, "succeeded", "task-1") EXCEPT !.results0 = Bare],
      [WithStatus(EmptyBody, "completed", "task-1") EXCEPT !.dataIsArray = TRUE],
      [WithStatus(EmptyBody, "failed", "task-1") EXCEPT !.errMsg = "boom"],
      [WithStatus(EmptyBody, "failed", "task-1") EXCEPT !.errMsg = "moderation"],
      [WithStatus(EmptyBody, "error", "task-1") EXCEPT !.errMsg = "failed to fetch input"] }

\* a poll request's outcome: t is "neterr" (fetch rejected; fetchWord: its
\* message contains 'fetch'), "notok", "badjson" or "json"
PollOutcomes ==
    { [t |-> "neterr", fetchWord |-> w, body |-> EmptyBody] : w \in BOOLEAN }
    \cup { [t |-> k, fetchWord |-> FALSE, body |-> EmptyBody]
           : k \in { "notok", "badjson" } }
    \cup { [t |-> "json", fetchWord |-> FALSE, body |-> b] : b \in PollBodies }

NoPoll == [t |-> "none", fetchWord |-> FALSE, body |-> EmptyBody]

----------------------------------------------------------------------------
(* The synchronous stretches of generateAIImage as functions to an outcome  *)
(*   [next, error, emits, data, image]                                      *)
(* next: "throw" (to the catch of line 1110), "poll", "download", "done".   *)

Err(kind, taskId) == [kind |-> kind, taskId |-> taskId]
NoError == Err("", "")

Outcome(next, err, emits, d, img) ==
    [next |-> next, error |-> err, emits |-> emits, data |-> d, image |-> img]

\* lines 992-1109: from a body that is not pending to the result
Extraction(d, emits) ==
    LET done == d.status \in { "completed", "success", "succeeded" }
        d2 == IF done /\ ~CompletedThrows(d)
              THEN [d EXCEPT !.image = CompletedImage(d)] ELSE d
        g == ExtractImage(d2)
    IN  IF done /\ CompletedThrows(d)
        THEN Outcome("throw", Err("TypeError", ""), emits, d, Absent)
        ELSE IF ~Truthy(g)
        THEN Outcome("throw", Err("MalformedResponse", ""), emits, d2, Absent)
        ELSE IF IsRemote(g)
        THEN Outcome("download", NoError, emits \o << 95 >>, d2, g)
        ELSE Outcome("done", NoError, emits \o << 100 >>, d2, g)

\* Mutant: a pending body with a task id is polled for on every endpoint.
ProcessData_PollsAnywhere(d, nano) ==
    IF d.status \in { "failed", "error" }
    THEN Outcome("throw", Err(FriendlyError(d), ""), << 90 >>, d, Absent)
    ELSE IF d.status \in { "pending", "processing", "in_progress" }
    THEN IF d.id # ""
         THEN Outcome("poll", NoError, << 90, 50 >>, d, Absent)
         ELSE Outcome("throw", Err("PendingNoPoll", d.id), << 90 >>, d, Absent)
    ELSE Extraction(d, << 90 >>)

\* lines 863-990: progress 90, then the body's status decides
ProcessData(d, nano) ==
    IF d.status \in { "failed", "error" }
    THEN Outcome("throw", Err(FriendlyError(d), ""), << 90 >>, d, Absent)
    ELSE IF d.status \in { "pending", "processing", "in_progress" }
    THEN IF d.id # "" /\ nano
         THEN Outcome("poll", NoError, << 90, 50 >>, d, Absent)
         ELSE Outcome("throw", Err("PendingNoPoll", d.id), << 90 >>, d, Absent)
    ELSE Extraction(d, << 90 >>)

\* Mutant: the poll loop's condition is off by one.
PollMore_OffByOne(a) == a <= maxPollingAttempts

\* line 902: the poll loop's condition
PollMore(a) == a < maxPollingAttempts

\* line 906: 50 + Math.min(30, (attempt / maxPollingAttempts) * 30)
PollProgress(a) ==
    LET x == (a * 30) \div maxPollingAttempts IN 50 + (IF x < 30 THEN x ELSE 30)

\* lines 919-968: one poll answer: "continue", "break" (data updated) or "throw"
PollStep(d, o) ==
    LET b == o.body
        resultImage == IF Truthy(b.results0) THEN b.results0
                       ELSE Or4(b.image, b.url, b.dataStr, b.base64)
        plain == /\ ~StartsWith(resultImage, "data:")
                 /\ ~StartsWith(resultImage, "http")
                 /\ ~StartsWith(resultImage, "blob:")
        kind == IF b.failure_reason = "output_moderation"
                   \/ b.errMsg \in { "moderation", "policy" }
                THEN "ModerationRejected" ELSE "TaskFailed"
    IN  CASE o.t = "neterr" ->
               IF o.fetchWord THEN [step |-> "continue", error |-> NoError, data |-> d]
               ELSE [step |-> "throw", error |-> Err("NetworkError", ""), data |-> d]
          [] o.t = "notok" -> [step |-> "continue", error |-> NoError, data |-> d]
          [] o.t = "badjson" ->
               [step |-> "throw", error |-> Err("MalformedResponse", ""), data |-> d]
          [] OTHER ->
               IF b.status \in { "completed", "success" }
               THEN IF CompletedThrows(b)
                    THEN [step |-> "throw", error |-> Err("TypeError", ""), data |-> d]
                    ELSE IF Truthy(resultImage)
                    THEN [step |-> "break", error |-> NoError,
                          data |-> [d EXCEPT !.image = IF plain THEN PrefixPng(resultImage)
                                                       ELSE resultImage,
                                             !.status = "completed"]]
                    ELSE [step |-> "continue", error |-> NoError, data |-> d]
               ELSE IF b.status \in { "failed", "error" }
               THEN IF b.errMsg = "failed to fetch input"     \* message.includes('fetch')
                    THEN [step |-> "continue", error |-> NoError, data |-> d]
                    ELSE [step |-> "throw", error |-> Err(kind, ""), data |-> d]
               ELSE [step |-> "continue", error |-> NoError, data |-> d]

\* lines 971-979: the loop ended without a completed status
TimeoutError(d) == Err("Timeout", d.id)

\* line 746
IsAuthFailure(status) == status = 401

\* line 751: a 429 is waited out inside the try block
RateLimitRetry(status, n) == status = 429 /\ n < maxRetries - 1

\* Mutant: the wait for a 429 does not count as an attempt.
RateLimitCount_Forgotten(n) == n

\* line 753: retryCount++ after the wait for a 429
RateLimitCount(n) == n + 1

\* Mutant: the backoff does not grow with the attempt.
RetryDelay_Constant(n) == BackoffUnit

\* lines 752 and 1118: the linear backoff before attempt n + 1
RetryDelay(n) == BackoffUnit * n

\* line 1113
GivesUp(n) == n >= maxRetries

----------------------------------------------------------------------------
(* The SSE reader, lines 763-835.  A chunk is a sequence of atoms: a line    *)
(* break, a well-formed `data: {json}` text, a `data: ` text whose payload   *)
(* does not parse, or other text.                                            *)

NoData == [EmptyBody EXCEPT !.status = "unset"]      \* null / not yet assigned

NL == [t |-> "nl", body |-> EmptyBody]
BadEvent == [t |-> "bad", body |-> EmptyBody]
Comment == [t |-> "text", body |-> EmptyBody]
Event(b) == [t |-> "data", body |-> b]

EvRunning == [WithStatus(EmptyBody, "processing", "task-1") EXCEPT !.progress = 50]
EvQueued == [WithStatus(EmptyBody, "pending", "") EXCEPT !.progress = 0]
EvSucceeded == [WithStatus(EmptyBody, "succeeded", "task-1")
                   EXCEPT !.progress = 100, !.results0 = Bare]
EvFailed == [WithStatus(EmptyBody, "failed", "task-1") EXCEPT !.errMsg = "policy"]

StreamChunks ==
    { << Event(EvRunning), NL >>, << Event(EvQueued), NL >>,
      << Event(EvRunning), NL, BadEvent, NL >>,
      << Event(EvSucceeded), NL >>, << Event(EvFailed), NL >>,
      << BadEvent, NL >>, << Comment, NL >>,
      << Event(EvSucceeded) >>,
      << Event(EvSucceeded), NL, Event(EvRunning) >> }

\* buffer.split('\n'): the complete lines and the unfinished rest
RECURSIVE SplitLines(_, _, _)
SplitLines(text, line, lines) ==
    IF text = << >> THEN [lines |-> lines, rest |-> line]
    ELSE IF Head(text).t = "nl"
         THEN SplitLines(Tail(text), << >>, Append(lines, line))
         ELSE SplitLines(Tail(text), Append(line, Head(text)), lines)

\* line.startsWith('data: ') and JSON.parse of the rest succeeds
ParsesAsEvent(line) == Len(line) = 1 /\ line[1].t = "data"

\* Mutant: an event's progress is passed on as it is.
EventProgress_Unscaled(prog) == prog

\* line 796: 10 + progress * 0.8
EventProgress(prog) == 10 + (prog * 8) \div 10

\* Mutant: a line that does not parse clears the last parsed event.
RECURSIVE ProcessLines_BadClears(_, _, _, _)
ProcessLines_BadClears(lines, rest, last, emits) ==
    IF lines = << >> THEN [lastData |-> last, emits |-> emits]
    ELSE IF ~ParsesAsEvent(Head(lines))
         THEN ProcessLines_BadClears(Tail(lines), rest,
                                     [EmptyBody EXCEPT !.status = "unset"], emits)
         ELSE LET ev == Head(lines)[1].body
                  em == IF ev.progress # -1
                        THEN Append(emits, 10 + (ev.progress * 8) \div 10) ELSE emits
              IN  IF ev.status \in { "succeeded", "completed", "failed", "error" }
                  THEN [lastData |-> IF Len(rest) = 1 /\ rest[1].t = "data"
                                     THEN rest[1].body ELSE ev,
                        emits |-> em]
                  ELSE ProcessLines_BadClears(Tail(lines), rest, ev, em)

\* lines 786-822: the for loop over the complete lines
RECURSIVE ProcessLines(_, _, _, _)
ProcessLines(lines, rest, last, emits) ==
    IF lines = << >> THEN [lastData |-> last, emits |-> emits]
    ELSE IF ~ParsesAsEvent(Head(lines))
         THEN ProcessLines(Tail(lines), rest, last, emits)
         ELSE LET ev == Head(lines)[1].body
                  em == IF ev.progress # -1
                        THEN Append(emits, EventProgress(ev.progress)) ELSE emits
              IN  IF Terminal(ev.status)
                  THEN [lastData |-> IF ParsesAsEvent(rest) THEN rest[1].body ELSE ev,
                        emits |-> em]
                  ELSE ProcessLines(Tail(lines), rest, ev, em)

\* the first line of the for loop's run that parses to a final status
RECURSIVE FirstTerminal(_)
FirstTerminal(lines) ==
    IF lines = << >> THEN NoData
    ELSE IF ParsesAsEvent(Head(lines)) /\ Terminal(Head(lines)[1].body.status)
         THEN Head(lines)[1].body
         ELSE FirstTerminal(Tail(lines))

\* line 787 holds and JSON.parse (line 791) throws
IsBadFrame(line) ==
    Len(line) > 0 /\ line[1].t \in { "data", "bad" } /\ ~ParsesAsEvent(line)

\* the lines the for loop's run skips in its catch (line 816)
RECURSIVE SkippedFrames(_)
SkippedFrames(lines) ==
    IF lines = << >> THEN 0
    ELSE IF ParsesAsEvent(Head(lines)) /\ Terminal(Head(lines)[1].body.status) THEN 0
    ELSE (IF IsBadFrame(Head(lines)) THEN 1 ELSE 0) + SkippedFrames(Tail(lines))

----------------------------------------------------------------------------
(* The request, lines 313-699 *)

endpoint == Trim(config.apiEndpoint)

\* the images a request carries, in order, each tagged with the slot it came from
Slot(name, img) == [slot |-> name, img |-> img]

\* Mutant: the scene image is added before the role image.
PayloadImages_SceneFirst(st, role, scene) ==
    << Slot("storyboard", st) >>
    \o (IF scene.kind = "data" /\ scene.n >= MinImageLen
        THEN << Slot("scene", scene) >> ELSE << >>)
    \o (IF role.kind = "data" /\ role.n >= MinImageLen
        THEN << Slot("role", role) >> ELSE << >>)

\* Gemini parts / Nano Banana urls: a reference image is sent when its payload
\* has 100 characters or more
PayloadImages(st, role, scene) ==
    << Slot("storyboard", st) >>
    \o (IF role.kind = "data" /\ role.n >= MinImageLen
        THEN << Slot("role", role) >> ELSE << >>)
    \o (IF scene.kind = "data" /\ scene.n >= MinImageLen
        THEN << Slot("scene", scene) >> ELSE << >>)

\* generic body: image / reference_image / scene_image hold the whole data URLs
GenericImages(st, role, scene) ==
    << Slot("storyboard", st) >>
    \o (IF role.kind = "data" /\ StrLen(role) >= MinImageLen
        THEN << Slot("role", role) >> ELSE << >>)
    \o (IF scene.kind = "data" /\ StrLen(scene) >= MinImageLen
        THEN << Slot("scene", scene) >> ELSE << >>)

\* the request is not built: the provider branch throws (lines 500, 658)
BuildThrows(prov, st) ==
    \/ prov = "ASYNC_TASK" /\ st.n < MinImageLen
    \/ prov = "GENERIC" /\ StrLen(st) < MinImageLen

\* Mutant: the configuration is read from the store again at each use.
CurrentConfig_Reread(snapshot, saved) == saved

\* line 241: `config` is a constant of the call; every later use reads it
CurrentConfig(snapshot, saved) == snapshot

\* line 892: the result URL of a /v1/draw/<name> endpoint
ResultUrl(e) ==
    IF Len(e) >= 2 /\ e[Len(e) - 1] = "/v1/draw/"
    THEN SubSeq(e, 1, Len(e) - 1) \o << "result" >>
    ELSE e

Sent(kind, url, key) == [ kind |-> kind, url |-> url, key |-> key ]
NothingSent == Sent("none", << >>, "")

\* size: the width and height of line 327, sent as imageSize / size or
\* written into the Gemini prompt; cfg: the configuration whose endpoint is
\* apiUrl and whose key goes into the headers or the query
BuildRequestBody(prov, st, role, scene, size, cfg) ==
    [ provider |-> prov,
      auth |-> IF prov = "GEMINI" THEN "query" ELSE "bearer",
      images |-> IF prov = "GENERIC" THEN GenericImages(st, role, scene)
                 ELSE PayloadImages(st, role, scene),
      imageSize |-> size,
      url |-> Trim(cfg.apiEndpoint),
      key |-> cfg.apiKey ]

----------------------------------------------------------------------------
(* onProgress.  The sequence of reported values is kept as its summary:      *)
(* the last value, whether the sequence so far never decreased, and how      *)
(* often 100 was reported.                                                   *)

NoProgress == [last |-> -1, ordered |-> TRUE, hundreds |-> 0]

RECURSIVE Report(_, _)
Report(pr, values) ==
    IF values = << >> THEN pr
    ELSE Report([last |-> Head(values),
                 ordered |-> pr.ordered /\ pr.last <= Head(values),
                 hundreds |-> pr.hundreds + (IF Head(values) = 100 THEN 1 ELSE 0)],
                Tail(values))

\* line 711
DispatchProgress(n) == 30 + n * 10

----------------------------------------------------------------------------
(* validateAPIConfig, lines 65-215 *)

\* String.prototype.toLowerCase, on the pieces that hold capitals
LowerTok(t) == CASE t = ":generateContent" -> ":generatecontent"
                 [] t = "/V1/DRAW/" -> "/v1/draw/"
                 [] OTHER -> t

ToLowerCase(s) == [i \in 1..Len(s) |-> LowerTok(s[i])]

UpperDrawEndpoint == << "https://", "api.example", "/V1/DRAW/", "nano-banana" >>
DocsEndpoint == << "https://", "api.example", "/docs", "/v1/images" >>
HtmlPageEndpoint == << "https://", "api.example", "/index", ".html" >>

\* the configurations validateAPIConfig is called with
ProbeEndpoints ==
    { << >>, GeminiEndpoint, DrawEndpoint, UpperDrawEndpoint, GenericEndpoint,
      PaddedEndpoint, NoSchemeEndpoint, DocsEndpoint, HtmlPageEndpoint }

\* lines 73-81: the address looks like a documentation page
LooksLikeDocs(e) ==
    \/ \E i \in 1..Len(e) : e[i] \in { "/docs", "apifox.cn", "/#/" }
    \/ Len(e) > 0 /\ e[Len(e)] = ".html"

\* lines 84-86 and 99-139: the test request's shape
ProbeProvider(e) ==
    IF isGeminiAPI(ToLowerCase(e)) THEN "GEMINI"
    ELSE IF isNanoBananaAPI(ToLowerCase(e)) THEN "ASYNC_TASK"
    ELSE "GENERIC"

ProbeRequest(e) ==
    [ provider |-> ProbeProvider(e),
      auth |-> IF ProbeProvider(e) = "GEMINI" THEN "query" ELSE "bearer" ]

NoProbeRequest == [ provider |-> "none", auth |-> "" ]

\* a probe answer: status, content type, whether the body parses as JSON and
\* which of the words the code looks for its text holds: "gemini" (Gemini,
\* candidates), "channel" (channel_error, empty response, request id:), "none"
ProbeResponses ==
    [ status : { 200, 400, 401, 403, 404, 422, 429, 500 },
      ctype : { "application/json", "text/html", "text/plain" },
      jsonOk : BOOLEAN,
      words : { "none", "gemini", "channel" } ]

NoProbeResponse ==
    [ status |-> -1, ctype |-> "none", jsonOk |-> FALSE, words |-> "none" ]

ProbeUnreachable ==
    [ status |-> 0, ctype |-> "", jsonOk |-> FALSE, words |-> "none" ]

NoProbe == [ pc |-> "idle", endpoint |-> << >>, request |-> NoProbeRequest,
             response |-> NoProbeResponse, error |-> "" ]

\* Mutant: 403 is not taken as a sign of a reachable endpoint.
IsReachableStatus_No403(status) == status \in { 401, 400, 422, 429 }

\* lines 187-194: the statuses that show the endpoint exists
IsReachableStatus(status) == status \in { 401, 403, 400, 422, 429 }

\* lines 148-212: "" when validateAPIConfig returns true, else the error thrown
ProbeVerdict(r) ==
    LET isJson == r.ctype = "application/json"
        ok == 200 <= r.status /\ r.status <= 299
        \* lines 161-183: the JSON error mentions the gateway; the throw of
        \* line 171 is caught by line 181, so 401/403 fall through
        early == isJson /\ r.jsonOk /\ r.words # "none"
                 /\ r.status \notin { 401, 403 }
        \* line 198: response.text() of a body response.json() has consumed
        errorText == IF isJson THEN "none" ELSE r.words
    IN  IF r.ctype = "text/html" THEN "HtmlResponse"
        ELSE IF early THEN ""
        ELSE IF IsReachableStatus(r.status) THEN ""
        ELSE IF ~ok /\ errorText # "gemini" THEN "ProbeRejected"
        ELSE ""

----------------------------------------------------------------------------
(* The state machine *)

NoResponse == [status |-> -1, ctype |-> "none"]
Mixed == [status |-> -1, ctype |-> "mixed"]

Answered(r) ==
    /\ lastResponse' = r
    /\ allAnswers' = IF allAnswers \in { NoResponse, r } THEN r ELSE Mixed

Init ==
    /\ stored \in StoredValues
    /\ pc = "idle"
    /\ params = NoParams
    /\ config = Null
    /\ storyboardBase64 = NoImage /\ roleBase64 = NoImage /\ sceneBase64 = NoImage
    /\ request = NoRequest
    /\ retryCount = 0
    /\ data = NoData
    /\ buffer = << >> /\ lastData = NoData /\ streamReads = 0
    /\ terminalEvent = NoData /\ badFrames = 0
    /\ attempt = 0
    /\ generatedImage = Absent
    /\ result = NoResult
    /\ error = NoError /\ caught = NoError /\ timedOut = FALSE
    /\ posts = 0 /\ pollRuns = 0
    /\ runPolls = 0 /\ runWaited = 0 /\ runPending = TRUE /\ lastPoll = NoPoll
    /\ lastRequest = NothingSent
    /\ fetches = 0
    /\ backoffs = << >>
    /\ lastResponse = NoResponse /\ allAnswers = NoResponse
    /\ progress = NoProgress
    /\ inFlight = 0
    /\ probe = NoProbe

\* the call rejects with e
Reject(e) == pc' = "failed" /\ error' = e

\* saveAIImageConfig, lines 59-61, called with one of C
SaveConfig(C) ==
    /\ \E c \in C : stored' = c
    /\ UNCHANGED << probe, inFlight, callVars, imageVars, request, streamVars,
                    answerVars, runVars, flowVars, posts >>

\* generateAIImage is called, lines 238-250
Call(P) ==
    /\ pc = "idle"
    /\ \E p \in P : params' = p
    /\ config' = stored
    /\ IF stored = Null
       THEN Reject(Err("ConfigMissing", ""))
       ELSE IF stored.apiEndpoint = << >> \/ stored.apiKey = "" \/ stored.modelName = ""
            THEN Reject(Err("ConfigIncomplete", ""))
            ELSE pc' = "convStoryboard" /\ error' = error
    /\ UNCHANGED << probe, inFlight, stored,
                    imageVars, request, streamVars, answerVars, runVars, posts,
                    data, retryCount, caught, timedOut, backoffs, attempt, pollRuns,
                    generatedImage, result, fetches, progress >>

\* lines 263-272: await convertToBase64(params.storyboardImage), then the guard
ConvertStoryboard ==
    /\ pc = "convStoryboard"
    /\ fetches' = fetches + (IF NeedsFetch(params.storyboardImage) THEN 1 ELSE 0)
    /\ \E r \in convertToBase64(params.storyboardImage) :
         IF r = ConvError \/ StrLen(r) < MinImageLen
         THEN Reject(Err("InvalidInput", "")) /\ storyboardBase64' = storyboardBase64
         ELSE pc' = "convRole" /\ storyboardBase64' = r /\ error' = error
    /\ UNCHANGED << probe, inFlight, stored, callVars, roleBase64, sceneBase64,
                    request, streamVars, answerVars, runVars, posts, data, retryCount,
                    caught, timedOut, backoffs, attempt, pollRuns, generatedImage,
                    result, progress >>

\* lines 277-292
ConvertRole ==
    /\ pc = "convRole"
    /\ IF params.roleImage.kind \in { "none", "empty" }
       THEN pc' = "convScene" /\ UNCHANGED << roleBase64, error, fetches >>
       ELSE /\ fetches' = fetches + (IF NeedsFetch(params.roleImage) THEN 1 ELSE 0)
            /\ \E r \in convertToBase64(params.roleImage) :
                 IF r = ConvError
                 THEN Reject(Err("InvalidInput", "")) /\ roleBase64' = roleBase64
                 ELSE pc' = "convScene" /\ roleBase64' = r /\ error' = error
    /\ UNCHANGED << probe, inFlight, stored,
                    callVars, storyboardBase64, sceneBase64, request, streamVars,
                    answerVars, runVars, posts, data, retryCount, caught, timedOut,
                    backoffs, attempt, pollRuns, generatedImage, result, progress >>

\* lines 294-309
ConvertScene ==
    /\ pc = "convScene"
    /\ IF params.sceneImage.kind \in { "none", "empty" }
       THEN pc' = "build" /\ UNCHANGED << sceneBase64, error, fetches >>
       ELSE /\ fetches' = fetches + (IF NeedsFetch(params.sceneImage) THEN 1 ELSE 0)
            /\ \E r \in convertToBase64(params.sceneImage) :
                 IF r = ConvError
                 THEN Reject(Err("InvalidInput", "")) /\ sceneBase64' = sceneBase64
                 ELSE pc' = "build" /\ sceneBase64' = r /\ error' = error
    /\ UNCHANGED << probe, inFlight, stored,
                    callVars, storyboardBase64, roleBase64, request, streamVars,
                    answerVars, runVars, posts, data, retryCount, caught, timedOut,
                    backoffs, attempt, pollRuns, generatedImage, result, progress >>

\* lines 313-706: new URL(endpoint), the provider's request, onProgress(10)
BuildRequest ==
    /\ pc = "build"
    /\ IF ~ParsesAsURL(endpoint)
       THEN Reject(Err("InvalidEndpoint", "")) /\ UNCHANGED << request, progress >>
       ELSE IF BuildThrows(Provider(endpoint), storyboardBase64)
       THEN Reject(Err("InvalidInput", "")) /\ UNCHANGED << request, progress >>
       ELSE /\ request' = BuildRequestBody(Provider(endpoint), storyboardBase64,
                                           roleBase64, sceneBase64,
                                           calculateImageSize(params.aspectRatio, 1024),
                                           CurrentConfig(config, stored))
            /\ progress' = Report(progress, << 10 >>)
            /\ pc' = "loop" /\ error' = error
    /\ retryCount' = 0
    /\ UNCHANGED << probe, inFlight, stored,
                    callVars, imageVars, streamVars, answerVars, runVars, posts,
                    data, caught, timedOut, backoffs, attempt, pollRuns, generatedImage,
                    result, fetches >>

\* a request is issued: fetch() or reader.read() is called
Issue(n) == n + 1

\* Mutant: the next step does not wait for the request's answer.
Settle_NotAwaited(n) == n

\* the awaited request settles: `await` returns or throws
Settle(n) == n - 1

\* lines 708-718: the loop head (after the backoff sleep, if any): the bindings
\* of a new iteration, onProgress(30 + retryCount * 10), then the POST
Dispatch ==
    /\ pc = "loop"
    /\ IF retryCount < maxRetries
       THEN /\ progress' = Report(progress, << DispatchProgress(retryCount) >>)
            /\ posts' = posts + 1 /\ inFlight' = Issue(inFlight)
            /\ lastRequest' = Sent("submit", request.url, request.key)
            /\ pc' = "awaitPost" /\ error' = error
       ELSE /\ Reject(Err("Exhausted", ""))              \* line 1122
            /\ UNCHANGED << progress, posts, inFlight, lastRequest >>
    /\ data' = NoData /\ generatedImage' = Absent /\ caught' = NoError
    /\ buffer' = << >> /\ lastData' = NoData /\ streamReads' = 0
    /\ terminalEvent' = NoData /\ badFrames' = 0
    /\ attempt' = 0 /\ runPolls' = 0 /\ runWaited' = 0 /\ runPending' = TRUE
    /\ lastPoll' = NoPoll
    /\ UNCHANGED << probe, stored, callVars, imageVars, request, answerVars, retryCount,
                    timedOut, backoffs, pollRuns, result, fetches >>

\* Mutant: the catch block forgets to count the attempt.
NextRetryCount_Forgotten(n) == n

\* line 1111: retryCount++
NextRetryCount(n) == n + 1

\* An outcome of a synchronous stretch takes effect; pre is what was reported
\* to onProgress before it.  "throw" is the catch block of lines 1110-1119.
Apply(o, pre) ==
    /\ progress' = Report(progress, pre \o o.emits)
    /\ data' = o.data
    /\ inFlight' = IF o.next = "download" THEN Issue(Settle(inFlight))
                   ELSE Settle(inFlight)
    /\ CASE o.next = "throw" ->
              /\ retryCount' = NextRetryCount(retryCount)
              /\ caught' = o.error
              /\ timedOut' = (timedOut \/ o.error.kind = "Timeout")
              /\ IF GivesUp(NextRetryCount(retryCount))
                 THEN Reject(o.error) /\ backoffs' = backoffs
                 ELSE /\ pc' = "loop" /\ error' = error
                      /\ backoffs' = Append(backoffs,
                                            RetryDelay(NextRetryCount(retryCount)))
              /\ UNCHANGED << attempt, pollRuns, generatedImage, result, fetches >>
         [] o.next = "poll" ->
              /\ pc' = "pollWait"
              /\ attempt' = 0
              /\ pollRuns' = pollRuns + 1
              /\ UNCHANGED << retryCount, error, caught, timedOut, backoffs,
                              generatedImage, result, fetches >>
         [] o.next = "download" ->
              /\ pc' = "download"
              /\ generatedImage' = o.image
              /\ fetches' = fetches + 1
              /\ UNCHANGED << retryCount, error, caught, timedOut, backoffs, attempt,
                              pollRuns, result >>
         [] OTHER ->
              /\ pc' = "done"
              /\ generatedImage' = o.image
              /\ result' = [image |-> o.image,
                            model |-> CurrentConfig(config, stored).modelName]
              /\ UNCHANGED << retryCount, error, caught, timedOut, backoffs, attempt,
                              pollRuns, fetches >>

Thrown(e) == Outcome("throw", e, << >>, data, Absent)

\* line 714: fetch() rejects
FetchFails ==
    /\ pc = "awaitPost"
    /\ Answered(NetworkFailure)
    /\ Apply(Thrown(Err("NetworkError", "")), << >>)
    /\ UNCHANGED << probe, stored,
                    callVars, imageVars, request, streamVars, runVars, posts >>

\* lines 720-758: a non-OK answer
ErrorResponse ==
    /\ pc = "awaitPost"
    /\ \E r \in ErrorResponses :
         /\ Answered(r)
         /\ IF IsAuthFailure(r.status)
            THEN Apply(Thrown(Err("AuthError", "")), << 70 >>)
            ELSE IF RateLimitRetry(r.status, retryCount)
            THEN /\ backoffs' = Append(backoffs, RetryDelay(retryCount + 1))
                 /\ retryCount' = RateLimitCount(retryCount)
                 /\ pc' = "loop" /\ inFlight' = Settle(inFlight)
                 /\ progress' = Report(progress, << 70 >>)
                 /\ UNCHANGED << data, error, caught, timedOut, attempt, pollRuns,
                                 generatedImage, result, fetches >>
            ELSE Apply(Thrown(Err("ApiCallFailed", "")), << 70 >>)
    /\ UNCHANGED << probe, stored,
                    callVars, imageVars, request, streamVars, runVars, posts >>

\* lines 836-857: a 200 answer that is neither JSON nor an event stream
HtmlResponse ==
    /\ pc = "awaitPost"
    /\ Answered(OkHtml)
    /\ Apply(Thrown(Err("MalformedResponse", "")), << 70 >>)
    /\ UNCHANGED << probe, stored,
                    callVars, imageVars, request, streamVars, runVars, posts >>

\* lines 858-1109: a 200 JSON answer whose body is one of B
JsonResponse(B) ==
    /\ pc = "awaitPost"
    /\ Answered(OkJson)
    /\ \E b \in B :
         Apply(ProcessData(b, isNanoBananaAPI(endpoint)), << 70 >>)
    /\ UNCHANGED << probe, stored,
                    callVars, imageVars, request, streamVars, runVars, posts >>

\* lines 763-773: a 200 event stream: the reader is taken
StreamResponse ==
    /\ pc = "awaitPost"
    /\ Answered(OkStream)
    /\ progress' = Report(progress, << 70 >>)
    /\ pc' = "stream"
    /\ inFlight' = Issue(Settle(inFlight))      \* the POST is answered, a read begins
    /\ UNCHANGED << probe, stored, callVars, imageVars, request, streamVars, runVars, posts,
                    data, retryCount, error, caught, timedOut, backoffs, attempt,
                    pollRuns, generatedImage, result, fetches >>

\* lines 775-835: one reader.read(): the stream ends (data = lastData, line
\* 835, and what follows it), or a chunk arrives
StreamRead ==
    /\ pc = "stream"
    /\ \/ LET o == IF lastData = NoData                             \* done
                    THEN Thrown(Err("MalformedResponse", ""))
                    ELSE ProcessData(lastData, isNanoBananaAPI(endpoint))
          IN  /\ Apply(o, << >>)
              \* the reader's block (lines 763-835) is left: its locals are
              \* gone by the time the poll loop runs
              /\ IF o.next = "poll"
                 THEN /\ buffer' = << >> /\ lastData' = NoData /\ streamReads' = 0
                      /\ badFrames' = 0 /\ UNCHANGED terminalEvent
                 ELSE UNCHANGED streamVars
       \/ /\ streamReads < MaxStreamReads
          /\ \E chunk \in StreamChunks :
               LET split == SplitLines(buffer \o chunk, << >>, << >>)
                   after == ProcessLines(split.lines, split.rest, lastData, << >>)
               IN  /\ buffer' = split.rest
                   /\ lastData' = after.lastData
                   /\ streamReads' = streamReads + 1
                   /\ terminalEvent' = IF terminalEvent # NoData THEN terminalEvent
                                       ELSE FirstTerminal(split.lines)
                   /\ badFrames' = badFrames + SkippedFrames(split.lines)
                   /\ IF Terminal(after.lastData.status)
                      THEN Apply(ProcessData(after.lastData, isNanoBananaAPI(endpoint)),
                                 after.emits)
                      ELSE /\ progress' = Report(progress, after.emits)
                           /\ inFlight' = Issue(Settle(inFlight))
                           /\ UNCHANGED << pc, data, retryCount, error, caught, timedOut,
                                           backoffs, attempt, pollRuns, generatedImage,
                                           result, fetches >>
    /\ UNCHANGED << probe, stored,
                    callVars, imageVars, request, answerVars, runVars, posts >>

\* lines 902-917: the 2 s sleep is over: onProgress, then the poll request
PollRequest ==
    /\ pc = "pollWait"
    /\ runWaited' = runWaited + pollingInterval
    /\ progress' = Report(progress, << PollProgress(attempt) >>)
    /\ runPolls' = runPolls + 1
    /\ lastRequest' = Sent("poll",
                           ResultUrl(Trim(CurrentConfig(config, stored).apiEndpoint)),
                           CurrentConfig(config, stored).apiKey)
    /\ pc' = "awaitPoll" /\ inFlight' = Issue(inFlight)
    /\ UNCHANGED << probe, stored,
                    callVars, imageVars, request, streamVars, answerVars, posts,
                    runPending, lastPoll, data, retryCount, error, caught, timedOut,
                    backoffs, attempt, pollRuns, generatedImage, result, fetches >>

\* lines 919-979: the poll request's answer, up to the next sleep or the loop's end
PollResponse ==
    /\ pc = "awaitPoll"
    /\ \E o \in PollOutcomes :
         LET st == PollStep(data, o)
         IN  /\ runPending' = (runPending /\ o.t = "json" /\ o.body.status = "pending")
             /\ lastPoll' = o
             /\ CASE st.step = "throw" -> Apply(Thrown(st.error), << >>)
                  [] st.step = "break" -> Apply(Extraction(st.data, << >>), << >>)
                  [] OTHER ->
                       IF PollMore(attempt + 1)
                       THEN /\ attempt' = attempt + 1
                            /\ pc' = "pollWait" /\ inFlight' = Settle(inFlight)
                            /\ UNCHANGED << data, retryCount, error, caught, timedOut,
                                            backoffs, pollRuns, generatedImage, result,
                                            fetches, progress >>
                       ELSE Apply(Thrown(TimeoutError(data)), << >>)
    /\ UNCHANGED << probe, stored,
                    callVars, imageVars, request, streamVars, answerVars, posts,
                    runPolls, runWaited, lastRequest >>

\* lines 1087-1109 and downloadImageAsBase64: the result image is downloaded
Download ==
    /\ pc = "download"
    /\ \/ /\ pc' = "done"
          /\ generatedImage' = Downloaded /\ inFlight' = Settle(inFlight)
          /\ result' = [image |-> Downloaded,
                        model |-> CurrentConfig(config, stored).modelName]
          /\ progress' = Report(progress, << 100 >>)
          /\ UNCHANGED << data, retryCount, error, caught, timedOut, backoffs, attempt,
                          pollRuns, fetches >>
       \/ Apply(Thrown(Err("DownloadFailed", "")), << >>)
    /\ UNCHANGED << probe, stored, callVars, imageVars, request, streamVars, answerVars,
                    runVars, posts >>

\* validateAPIConfig is called: lines 66-139, up to the probe request
ValidateCall ==
    /\ probe.pc = "idle"
    /\ \E e \in ProbeEndpoints :
         probe' = IF e = << >>
                  THEN [probe EXCEPT !.pc = "failed", !.error = "EmptyEndpoint"]
                  ELSE IF LooksLikeDocs(ToLowerCase(e))
                  THEN [probe EXCEPT !.pc = "failed", !.endpoint = e,
                                     !.error = "DocsEndpoint"]
                  ELSE IF ~ParsesAsURL(Trim(e))
                  THEN [probe EXCEPT !.pc = "failed", !.endpoint = e,
                                     !.error = "InvalidEndpoint"]
                  ELSE [probe EXCEPT !.pc = "awaitProbe", !.endpoint = e,
                                     !.request = ProbeRequest(e)]
    /\ UNCHANGED << inFlight, stored, callVars, imageVars, request, streamVars, answerVars,
                    runVars, flowVars, posts >>

\* line 141: the probe's fetch() rejects
ProbeFails ==
    /\ probe.pc = "awaitProbe"
    /\ probe' = [probe EXCEPT !.pc = "failed", !.response = ProbeUnreachable,
                              !.error = "Unreachable"]
    /\ UNCHANGED << inFlight, stored, callVars, imageVars, request, streamVars, answerVars,
                    runVars, flowVars, posts >>

\* lines 147-215: the probe is answered
ProbeResponse ==
    /\ probe.pc = "awaitProbe"
    /\ \E r \in ProbeResponses :
         probe' = [probe EXCEPT !.pc = IF ProbeVerdict(r) = "" THEN "ok" ELSE "failed",
                               !.response = r,
                               !.error = ProbeVerdict(r)]
    /\ UNCHANGED << inFlight, stored, callVars, imageVars, request, streamVars, answerVars,
                    runVars, flowVars, posts >>

\* the inputs of the calls whose retry loop is explored
LoopParams ==
    [ prompt : { "a cat" },
      storyboardImage : { DataUrl("image/png", 400) },
      roleImage : { NoImage },
      sceneImage : { NoImage },
      aspectRatio : { DefaultRatio } ]

Preparation ==
    \/ ConvertStoryboard \/ ConvertRole \/ ConvertScene \/ BuildRequest \/ Dispatch

Next ==
    \/ Call(LoopParams)
    \/ Preparation
    \/ FetchFails \/ ErrorResponse \/ HtmlResponse \/ JsonResponse(SubmitBodies)
    \/ StreamResponse \/ StreamRead
    \/ PollRequest \/ PollResponse
    \/ Download

Spec == Init /\ [][Next]_vars

\* Every awaited step completes: the call's own steps run, every request is
\* answered (or fails), and every response stream ends
SpecLive == Spec /\ WF_vars(Next)

\* the configurations saved while a call is under way
LaterConfigs ==
    { Config(GeminiEndpoint, "key", "gemini-image"), Config(GenericEndpoint, "", "model") }

\* The call with the settings screen saving a configuration at any moment
NextSnapshot == SaveConfig(LaterConfigs) \/ Next

SpecSnapshot == Init /\ [][NextSnapshot]_vars

\* The call from its start to its first submission POST, over all inputs
NextInputs == SaveConfig(Configs) \/ Call(ParamSets) \/ Preparation

SpecInputs == Init /\ [][NextInputs]_vars

\* The call from its start to its first submission POST, over the aspect ratios
NextSizes == Call(SizeParams) \/ Preparation

SpecSizes == Init /\ [][NextSizes]_vars

\* The call under 200 JSON answers of every combination of image fields
NextBodies ==
    Call(LoopParams) \/ Preparation \/ JsonResponse(ShapeBodies) \/ Download

SpecBodies == Init /\ [][NextBodies]_vars

\* The configuration screen: saving and validating configurations
NextValidate == SaveConfig(Configs) \/ ValidateCall \/ ProbeFails \/ ProbeResponse

SpecValidate == Init /\ [][NextValidate]_vars

----------------------------------------------------------------------------
(* Properties *)

\* the configured endpoint of the call has no scheme (a relative URL)
RelativeEndpoint == config # Null /\ config.apiEndpoint = NoSchemeEndpoint

ConvertedImages == { storyboardBase64, roleBase64, sceneBase64 } \ { NoImage }

\* C1: when every submission POST so far was answered 401, the call has
\* already failed with AuthError after exactly one POST and no backoff wait
C1_AuthFailureSurfacedAtOnce ==
    allAnswers.status = 401 =>
        /\ pc = "failed" /\ error.kind = "AuthError"
        /\ posts = 1 /\ backoffs = << >>

\* what the code does on sustained 401: three POSTs, two backoff waits
C1_AuthFailureRetried ==
    /\ allAnswers.status = 401
    /\ pc = "failed" /\ error.kind = "AuthError"
    /\ posts = 3 /\ backoffs = << 1000, 2000 >>

\* C2: once a poll loop has ended in Timeout the call has failed with that
\* Timeout: no further submission POST, no second poll loop
C2_PollTimeoutEndsTheCall ==
    timedOut => (pc = "failed" /\ error.kind = "Timeout")

\* what the code does: after a timed-out poll loop a second POST is made and
\* a second poll loop sends the call's 31st poll request
C2_SecondPollLoop ==
    /\ timedOut /\ posts = 2 /\ pollRuns = 2
    /\ runPolls = 1 /\ pc = "awaitPoll"

\* C3: while every submission POST is answered 429 the call keeps attempting
\* until it has made exactly 3 POSTs, then fails; the wait before attempt k
\* (k = 2, 3) is at least 1000 ms * (k - 1)
C3_Sustained429 ==
    allAnswers.status = 429 =>
        /\ posts <= 3
        /\ pc \in { "loop", "awaitPost", "failed" }
        /\ (pc = "failed" => posts = 3)
        /\ (pc = "loop" => (posts < 3 /\ retryCount < 3 /\ Len(backoffs) = posts))
        /\ (pc # "loop" => Len(backoffs) = posts - 1)
        /\ \A k \in 2..3 : k - 1 <= Len(backoffs) => backoffs[k - 1] >= 1000 * (k - 1)

C3_Sustained429Fails ==
    /\ allAnswers.status = 429
    /\ pc = "failed" /\ posts = 3 /\ Len(backoffs) = 2

\* C4: a poll loop sends at most 30 poll requests, each after a 2000 ms wait;
\* if every poll is answered "pending" the loop goes on until the 30th answer
\* and then ends in a Timeout error that carries the task id
C4_PollBudget ==
    /\ runPolls <= 30
    /\ runWaited = 2000 * runPolls
    /\ (caught.kind = "Timeout" =>
            runPolls = 30 /\ runWaited = 60000 /\ caught.taskId # "")
    /\ (runPending /\ 0 < runPolls /\ runPolls < 30 =>
            pc \in { "pollWait", "awaitPoll" })
    /\ (runPending /\ runPolls = 30 /\ pc # "awaitPoll" =>
            caught.kind = "Timeout" /\ pc \in { "loop", "failed" })

C4_AlwaysPendingTimesOut ==
    /\ runPending /\ runPolls = 30 /\ runWaited = 60000
    /\ caught = Err("Timeout", "task-1")

\* C5: the values passed to onProgress never decrease within one call
C5_ProgressNeverDecreases == progress.ordered

\* what the code does: a call that succeeds after reporting a smaller value
\* than the one before
C5_ProgressWentBack == pc = "done" /\ ~progress.ordered

C7_ResultIsDataURI == pc = "done" => IsDataURI(result.image)

\* what the code does: images[0] holding bare base64 text is returned as is
C7_BareBase64Returned == pc = "done" /\ result.image = Bare

\* C8: a call with an empty prompt issues no network request (no image
\* fetch, no submission POST)
C8_EmptyPromptNoNetwork ==
    params.prompt = "" => (fetches = 0 /\ posts = 0)

\* what the code does: the empty prompt is sent to the provider
C8_EmptyPromptPosted ==
    params.prompt = "" /\ pc = "awaitPost" /\ posts = 1

\* C9 as stated: every image the normalizer lets through decodes to at least
\* 100 bytes
C9_DecodedAtLeast100Bytes ==
    \A img \in ConvertedImages : DecodedLen(img.n) >= 100

\* C9, amended: every image the normalizer lets through is a data URL of at
\* least 100 characters (a data-URI input also has a payload of at least 50
\* characters); a storyboard image given as a data URI or fetched as a PNG
\* whose data URL is shorter makes the call fail before any submission POST
C9_EncodedAtLeast100Chars ==
    /\ \A img \in ConvertedImages : img.kind = "data" /\ StrLen(img) >= 100
    /\ (posts > 0 => storyboardBase64 # NoImage)
    /\ LET sb == params.storyboardImage
           short == \/ sb.kind = "data" /\ (StrLen(sb) < 100 \/ sb.n < 50)
                    \/ /\ sb.kind \in { "blob", "url" } /\ sb.mime = "image/png"
                       /\ DataUrlLen("image/png", B64Len(sb.bytes)) < 100
       IN  (short /\ pc \notin { "idle", "convStoryboard" }) =>
               (pc = "failed" /\ posts = 0)

C9_ShortImageRejected ==
    /\ params.storyboardImage = Fetched("blob", TRUE, "image/png", 30)
    /\ pc = "failed" /\ error.kind = "InvalidInput"
    /\ fetches = 1 /\ posts = 0

\* C10 as stated: with an endpoint that is no absolute URL the call makes no
\* network request (no image fetch, no submission POST)
C10_NoNetworkCall ==
    RelativeEndpoint => (fetches = 0 /\ posts = 0)

\* C10, amended: with an endpoint that is no absolute URL the call makes no
\* submission POST, never enters the retry loop and takes no backoff wait;
\* it fails with InvalidEndpoint once its input images are converted (which
\* may fetch them), or with InvalidInput if a conversion fails first
C10_NoSubmission ==
    RelativeEndpoint =>
        /\ posts = 0 /\ backoffs = << >> /\ retryCount = 0
        /\ pc \in { "convStoryboard", "convRole", "convScene", "build", "failed" }
        /\ (pc = "failed" => error.kind \in { "InvalidEndpoint", "InvalidInput" })
        /\ fetches <= 3

C10_InvalidEndpointAfterFetch ==
    /\ RelativeEndpoint
    /\ pc = "failed" /\ error.kind = "InvalidEndpoint"
    /\ fetches > 0 /\ posts = 0

\* the validateAPIConfig call has received an answer to its probe
ProbeAnswered == probe.pc \in { "ok", "failed" } /\ probe.response.status > 0

\* C11 as stated: an answered probe fails only when the answer is an HTML page
C11_OnlyHtmlFails ==
    (ProbeAnswered /\ probe.pc = "failed") => probe.response.ctype = "text/html"

\* C11, amended: an answer that is no HTML page and has status 401, 403, 429,
\* 400 or 422 is a success whatever its body; an HTML answer always fails; an
\* unreachable endpoint fails; any other failure of an answered probe is a
\* non-2xx status outside those five
C11_ProbeVerdicts ==
    /\ (ProbeAnswered /\ probe.response.ctype # "text/html"
            /\ probe.response.status \in { 401, 403, 429, 400, 422 })
         => probe.pc = "ok"
    /\ (ProbeAnswered /\ probe.response.ctype = "text/html")
         => (probe.pc = "failed" /\ probe.error = "HtmlResponse")
    /\ probe.response = ProbeUnreachable
         => (probe.pc = "failed" /\ probe.error = "Unreachable")
    /\ (ProbeAnswered /\ probe.pc = "failed" /\ probe.response.ctype # "text/html")
         => /\ probe.error = "ProbeRejected"
            /\ probe.response.status \notin { 401, 403, 429, 400, 422 }
            /\ probe.response.status >= 300

C11_AuthFailureAccepted ==
    /\ probe.pc = "ok" /\ probe.response.status = 403
    /\ probe.response.ctype = "application/json"
    /\ probe.response.jsonOk /\ probe.response.words = "channel"

\* C12: the provider shape of validateAPIConfig's test request (body and
\* where the key goes) is the one generateAIImage selects for that endpoint
C12_ProbeMatchesGenerate ==
    probe.request # NoProbeRequest =>
        /\ probe.request.provider = Provider(Trim(probe.endpoint))
        /\ probe.request.auth =
              (IF Provider(Trim(probe.endpoint)) = "GEMINI" THEN "query" ELSE "bearer")

\* what the code does: a Gemini endpoint is probed with the generic body and
\* a Bearer header
C12_GeminiProbedAsGeneric ==
    /\ probe.endpoint = GeminiEndpoint /\ probe.pc = "ok"
    /\ probe.request = [ provider |-> "GENERIC", auth |-> "bearer" ]

\* C13: every endpoint a request is built for is classified as exactly one
\* provider: GEMINI if it holds both /v1beta/models/ and :generateContent,
\* else ASYNC_TASK if it holds /v1/draw/, else GENERIC; classifying fetches
\* nothing
C13_Classification ==
    request # NoRequest =>
        LET both == Includes(endpoint, "/v1beta/models/")
                    /\ Includes(endpoint, ":generateContent")
            draw == Includes(endpoint, "/v1/draw/")
        IN  /\ request.provider \in { "GEMINI", "ASYNC_TASK", "GENERIC" }
            /\ request.provider = "GEMINI" <=> both
            /\ request.provider = "ASYNC_TASK" <=> (~both /\ draw)
            /\ request.provider = "GENERIC" <=> (~both /\ ~draw)
            /\ (\A img \in { params.storyboardImage, params.roleImage,
                              params.sceneImage } : ~NeedsFetch(img))
                 => fetches = 0

C13_BothShapesIsGemini ==
    /\ config # Null /\ config.apiEndpoint = BothShapesEndpoint
    /\ request # NoRequest /\ request.provider = "GEMINI" /\ pc = "awaitPost"

\* C14: the images of a request body are in the order storyboard, role,
\* scene: the storyboard image is first, each slot holds the image converted
\* from the input of that name (so swapped inputs give swapped outputs), and
\* the scene image never precedes the role image; a reference image is left
\* out only if it was not given or is under the body's 100-character minimum
C14_ImageOrder ==
    request # NoRequest =>
        LET imgs == request.images
            at(name) == { i \in 1..Len(imgs) : imgs[i].slot = name }
            size(img) == IF request.provider = "GENERIC" THEN StrLen(img) ELSE img.n
        IN  /\ Len(imgs) >= 1 /\ Len(imgs) <= 3
            /\ imgs[1] = Slot("storyboard", storyboardBase64)
            /\ \A i \in 2..Len(imgs) : imgs[i].slot \in { "role", "scene" }
            /\ \A i \in at("role") : imgs[i].img = roleBase64
            /\ \A i \in at("scene") : imgs[i].img = sceneBase64
            /\ \A i \in at("role") : \A j \in at("scene") : i < j
            /\ Cardinality(at("role")) <= 1 /\ Cardinality(at("scene")) <= 1
            /\ (roleBase64 # NoImage /\ size(roleBase64) >= 100) => at("role") # {}
            /\ (sceneBase64 # NoImage /\ size(sceneBase64) >= 100) => at("scene") # {}

C14_ThreeImagesInOrder ==
    /\ request # NoRequest /\ request.provider = "ASYNC_TASK"
    /\ Len(request.images) = 3 /\ pc = "awaitPost"
    /\ request.images[2] = Slot("role", DataUrl("image/png", 400))
    /\ request.images[3] = Slot("scene", DataUrl("image/jpeg", 400))

\* the base64 payloads of the Gemini-shaped answers
InlinePayloads == { Bare, LongPayload }

\* C15: a call that succeeds on a body whose candidates[0].content.parts
\* hold one inlineData with payload P and no mime type returns
\* "data:image/png;base64," followed by exactly P, and the configured
\* model name
C15_GeminiRoundTrip ==
    \A P \in InlinePayloads :
        (pc = "done" /\ data.candidates \in { << Part(P, "") >>,
                                              << Part(Absent, ""), Part(P, "") >> })
        => /\ result.image = << "data:", "image/png", ";base64," >> \o P
           /\ result.model = config.modelName

C15_PayloadReturned ==
    /\ pc = "done" /\ config.modelName = "gemini-image"
    /\ data.candidates = << Part(Absent, ""), Part(LongPayload, "") >>
    /\ result = [ image |-> << "data:", "image/png", ";base64,", "AAAA", "iVBORw0KGgo" >>,
                  model |-> "gemini-image" ]

\* C16: at most one request of a call is in flight at any time: a submission
\* POST, a stream read, a poll request or the result download is issued only
\* when none is pending, and every attempt after the first comes after the
\* previous attempt has ended and a backoff wait was taken
C16_OneRequestAtATime ==
    /\ inFlight \in { 0, 1 }
    /\ inFlight = 1 <=> pc \in { "awaitPost", "stream", "awaitPoll", "download" }
    /\ Len(backoffs) >= posts - 1
    /\ (pc = "loop" /\ posts > 0) => Len(backoffs) = posts

C16_RetryAfterPollAndBackoff ==
    /\ pc = "awaitPost" /\ inFlight = 1
    /\ posts = 2 /\ pollRuns = 1 /\ backoffs = << 1000 >>

\* C17: a call whose 3 attempts all failed rejects with an error of kind
\* Exhausted
C17_ExhaustedKind ==
    (pc = "failed" /\ posts = 3) => error.kind = "Exhausted"

\* what the code does: the third attempt's own error is thrown as it is
C17_LastErrorUnwrapped ==
    /\ pc = "failed" /\ posts = 3 /\ retryCount = 3
    /\ error = caught /\ error.kind = "ApiCallFailed"

\* C18: once an attempt has ended in a content-policy rejection the call has
\* failed with ModerationRejected (no further submission POST)
C18_ModerationIsFatal ==
    caught.kind = "ModerationRejected" =>
        (pc = "failed" /\ error.kind = "ModerationRejected")

\* what the code does: after the first attempt's rejection a backoff is
\* taken and the next attempt follows
C18_ModerationRetried ==
    /\ caught.kind = "ModerationRejected"
    /\ pc = "loop" /\ posts = 1 /\ retryCount = 1 /\ backoffs = << 1000 >>

\* C19: once the reader has parsed an event with status succeeded,
\* completed, failed or error, it reads no more and that event is the state
\* it hands on
C19_TerminalEventKept ==
    terminalEvent # NoData => (pc # "stream" /\ lastData = terminalEvent)

\* what the code does: the unfinished line left in the buffer replaces the
\* succeeded event, and the reader goes on reading
C19_TerminalEventReplaced ==
    /\ terminalEvent = EvSucceeded /\ lastData = EvRunning
    /\ buffer = << Event(EvRunning) >> /\ pc = "stream"

\* C20: a `data: ` line that does not parse is skipped: it never becomes the
\* last parsed event and never clears it, and a stream with a corrupt frame
\* followed by a succeeded frame gives the succeeded frame's image
C20_CorruptFrameSkipped ==
    /\ [](lastData # EmptyBody)
    /\ []((badFrames > 0 /\ pc = "done" /\ lastData = EvSucceeded)
            => result.image = << "data:", "image/png", ";base64,", "iVBORw0KGgo" >>)
    /\ []((badFrames > 0 /\ lastData = EvSucceeded) => pc \in { "done" })
    /\ [][(badFrames' > badFrames /\ lastData # NoData) => lastData' # NoData]_vars

C20_CorruptMiddleFrame ==
    /\ badFrames = 1 /\ streamReads = 2
    /\ terminalEvent = EvSucceeded /\ lastData = EvSucceeded
    /\ pc = "done" /\ result.image = PrefixPng(Bare)

\* C21: when a response stream has ended and no event with status succeeded,
\* completed, failed or error was ever parsed from it, the attempt has failed
\* with MalformedResponse: no result, no poll loop
C21_StreamEndIsMalformed ==
    (lastResponse = OkStream /\ pc \notin { "awaitPost", "stream" }
         /\ terminalEvent = NoData)
    => (caught.kind = "MalformedResponse" /\ pc \in { "loop", "failed" })

\* what the code does: the stream ended after a `processing` event that
\* carries a task id, and the poll loop is entered
C21_StreamEndHandsOffToPoller ==
    /\ lastResponse = OkStream /\ terminalEvent = NoData
    /\ data = EvRunning
    /\ pc = "pollWait" /\ pollRuns = 1 /\ runPolls = 0

\* the latest poll request was answered with a body of status failed or error
PollReportedFailure ==
    lastPoll.t = "json" /\ lastPoll.body.status \in { "failed", "error" }

\* C22: once a poll request is answered with status failed or error the poll
\* loop is over, whatever the error text: the attempt has ended in that
\* failure and no further poll request is sent for the task
C22_FailedPollIsTerminal ==
    PollReportedFailure =>
        /\ pc \in { "loop", "failed" }
        /\ caught.kind \in { "TaskFailed", "ModerationRejected" }

\* what the code does: the first poll is answered with status error and the
\* text "failed to fetch input"; the loop goes on and a second poll is sent
C22_FailedPollIgnored ==
    /\ PollReportedFailure /\ lastPoll.body.errMsg = "failed to fetch input"
    /\ pc = "awaitPoll" /\ attempt = 1 /\ runPolls = 2 /\ caught = NoError

\* the latest poll request failed transiently: fetch() rejected, or the
\* answer's status was not OK
PollFailedTransiently == lastPoll.t \in { "neterr", "notok" }

\* C23: a poll request that fails transiently does not end the poll loop: it
\* counts as one of the 30 attempts and the loop goes on to its next wait and
\* request (or, if it was the 30th, ends in Timeout)
C23_TransientPollFailureSwallowed ==
    PollFailedTransiently =>
        /\ pc \in { "pollWait", "awaitPoll" } \/ caught.kind = "Timeout"
        /\ pc = "pollWait" => attempt = runPolls

\* what the code does: the first poll's fetch() rejects with a message that
\* does not hold the word "fetch"; the attempt ends in that error
C23_PollNetworkErrorAborts ==
    /\ lastPoll = [t |-> "neterr", fetchWord |-> FALSE, body |-> EmptyBody]
    /\ pc = "loop" /\ caught.kind = "NetworkError"
    /\ runPolls = 1 /\ retryCount = 1

\* the image each shape of ShapeBodies yields, in the order of priority:
\* inline data, data[0].b64_json, images[0], result.image, image, url,
\* data (a string), a data URI found by the scan of the serialized body
ShapeImages ==
    << DataUri("image/jpeg", Bare), PrefixPng(LongPayload), Bare, BlobUrl,
       << "AAAA" >>, PlainHttpUrl, PrefixPng(<< "AAAA", "AAAA" >>), PngDataUri >>

\* the shapes the body d matches
ShapesOf(d) ==
    { i \in 1..8 :
        << d.candidates # << >>, d.dataB64 # Absent, d.images0 # Absent,
           d.resultImage # Absent, d.image # Absent, d.url # Absent,
           d.dataStr # Absent, d.other # Absent >>[i] }

Polled == pc \in { "pollWait", "awaitPoll" } \/ runPolls > 0

\* C25 as stated: an attempt whose body has status pending or processing
\* has entered the poll loop
C25_PendingHandsOff ==
    data.status \in { "pending", "processing" } => Polled

\* C25, amended: a body (JSON, or the last stream event) of status pending,
\* processing or in_progress starts the poll loop only when it carries a task
\* id and the endpoint holds /v1/draw/; the attempt then ends as the loop
\* ends.  Otherwise the attempt fails at once with the "still processing"
\* error, which names the task id if there is one, and no poll request is sent
C25_PollsOnlyDrawTasks ==
    /\ Polled => isNanoBananaAPI(endpoint) /\ data.id # ""
    /\ data.status \in { "pending", "processing", "in_progress" } =>
          IF data.id # "" /\ isNanoBananaAPI(endpoint)
          THEN /\ Polled
               /\ pc \in { "pollWait", "awaitPoll", "loop", "failed" }
               /\ pc \in { "loop", "failed" } =>
                     /\ lastPoll # NoPoll
                     /\ caught.kind \in { "Timeout", "TaskFailed", "ModerationRejected",
                                          "NetworkError", "MalformedResponse",
                                          "TypeError" }
          ELSE /\ ~Polled /\ pc \in { "loop", "failed" }
               /\ caught = Err("PendingNoPoll", data.id)

C25_PendingWithoutPoller ==
    /\ config # Null /\ config.apiEndpoint = GenericEndpoint
    /\ lastResponse = OkJson /\ data.status = "pending" /\ data.id = "task-1"
    /\ caught = Err("PendingNoPoll", "task-1")
    /\ pc = "loop" /\ runPolls = 0 /\ pollRuns = 0

\* C26: the size computed from an aspect ratio W:H has its larger side at
\* 1024, both sides multiples of 8, and its smaller side at
\* floor(round(1024 * min(W,H) / max(W,H)) / 8) * 8
C26_SizeRoundsDown ==
    request # NoRequest =>
        LET w == params.aspectRatio.w
            h == params.aspectRatio.h
            lo == IF w < h THEN w ELSE h
            hi == IF w < h THEN h ELSE w
            width == request.imageSize.width
            height == request.imageSize.height
            larger == IF w >= h THEN width ELSE height
            smaller == IF w >= h THEN height ELSE width
        IN  /\ larger = 1024
            /\ width % 8 = 0 /\ height % 8 = 0
            /\ smaller = (((2 * 1024 * lo + hi) \div (2 * hi)) \div 8) * 8

\* what the code does: 2.39:1 gives round(1024 / 2.39) = 428, and 428 is
\* rounded up to 432
C26_SizeRoundedUp ==
    /\ params.aspectRatio = Ratio(239, 100) /\ pc = "awaitPost"
    /\ request.imageSize = [ width |-> 1024, height |-> 432 ]

\* C27: every call ends, with a result or an error, when each awaited step
\* completes: at most 3 submission POSTs, at most 30 poll requests per poll
\* loop, every return to the head of the retry loop counts one attempt, and
\* the reader is left when the stream ends
C27_CallTerminates ==
    /\ [](posts <= maxRetries /\ runPolls <= maxPollingAttempts)
    /\ [](pc = "loop" => posts = retryCount)
    /\ [][(pc' = "loop" /\ pc \notin { "build", "loop" })
             => retryCount' = retryCount + 1]_vars
    /\ [][(pc = "stream" /\ UNCHANGED streamVars /\ pc' # pc) => pc' # "stream"]_vars
    /\ (pc # "idle") ~> (pc \in { "done", "failed" })
    /\ [](pc = "done" => result # NoResult /\ error = NoError)
    /\ [](pc = "failed" => error # NoError /\ result = NoResult)

\* the third attempt's poll loop ends with its 30th poll, which brings the image
C27_LongestCallEnds ==
    /\ pc = "done" /\ posts = 3 /\ retryCount = 2
    /\ runPolls = 30 /\ result # NoResult

\* C28: a call works on the configuration stored when it started, whatever is
\* saved afterwards: the snapshot never changes during the call, every
\* submission POST goes to its endpoint with its key, every poll request goes
\* to the result URL derived from its endpoint with its key, and the model
\* name returned is the snapshot's
C28_ConfigSnapshot ==
    /\ [][(pc = "idle" /\ pc' # "idle") => config' = stored]_vars
    /\ [][pc # "idle" => config' = config]_vars
    /\ [](lastRequest.kind = "submit" =>
             /\ lastRequest.url = Trim(config.apiEndpoint)
             /\ lastRequest.key = config.apiKey
             /\ request.provider = Provider(Trim(config.apiEndpoint)))
    /\ [](lastRequest.kind = "poll" =>
             /\ lastRequest.url = ResultUrl(Trim(config.apiEndpoint))
             /\ lastRequest.key = config.apiKey)
    /\ [](pc = "done" => result.model = config.modelName)

\* a call on the /v1/draw/ endpoint returns after polling, while a Gemini
\* configuration and then one without key were saved in the meantime
C28_SavedDuringPoll ==
    /\ pc = "done" /\ config = Config(PaddedEndpoint, "key", "model")
    /\ stored = Config(GenericEndpoint, "", "model")
    /\ lastRequest = Sent("poll", << "https://", "api.example", "/v1/draw/", "result" >>,
                          "key")
    /\ posts = 2 /\ result.model = "model"

\* the latest poll request was answered with a finished task and its image
PollDelivered ==
    /\ lastPoll.t = "json" /\ lastPoll.body.status \in { "completed", "succeeded" }
    /\ \E f \in { lastPoll.body.results0, lastPoll.body.image, lastPoll.body.url,
                  lastPoll.body.dataStr, lastPoll.body.base64 } : Truthy(f)

\* C29: a poll answer of status completed or succeeded that carries an image
\* ends the poll loop with that image: the call returns it (after
\* downloading it, if it is a URL) and does not go on polling
C29_PollSuccessRecognised ==
    PollDelivered =>
        \/ pc \in { "done", "download" } /\ data.status = "completed"
        \/ pc \in { "loop", "failed" } /\ caught.kind = "DownloadFailed"

\* what the code does: every poll, up to the 30th, is answered `succeeded`
\* with an image, and the attempt ends in Timeout
C29_SucceededPollTimesOut ==
    /\ lastPoll.t = "json" /\ lastPoll.body.status = "succeeded"
    /\ lastPoll.body.results0 = Bare
    /\ runPolls = 30 /\ caught = Err("Timeout", "task-1")
    /\ data.status = "pending" /\ pc = "loop"

\* C30: 100 is passed to onProgress only by a call that returns a result,
\* once, as the last value the call reports; a call that fails never reports
\* it, and no call reports it before its end (stream events carry a progress
\* between 0 and 100)
C30_HundredOnlyOnSuccess ==
    /\ progress.hundreds <= 1
    /\ progress.hundreds = 1 <=> pc = "done"
    /\ pc = "done" => progress.last = 100
    /\ pc # "done" => progress.last < 100

\* a second attempt returns a result after a stream whose last event
\* reported a progress of 100
C30_HundredAfterFullStream ==
    /\ pc = "done" /\ posts = 2 /\ lastData = EvSucceeded
    /\ lastData.progress = 100
    /\ progress.hundreds = 1 /\ progress.last = 100

====
